---- MODULE Spec2Model ----
(***************************************************************************)
(* Model of src/main.py: the Telegram background-remover bot.              *)
(*                                                                         *)
(* The event loop runs the handlers handle_photo, handle_document,         *)
(* send_as_document and send_as_photo as tasks that interleave at their    *)
(* await points; the default executor runs process_image_optimized on      *)
(* worker threads, which meet in get_bg_session(); periodic_cleanup is one *)
(* more task.  Every action below is one run of a task from one await      *)
(* point to the next (or one step of a worker thread).                     *)
(*                                                                         *)
(* Payloads are identified by the number of the handle_photo request that  *)
(* produced them; session objects by the number of the new_session call    *)
(* that built them.  0 stands for "no object" in a local variable.  The    *)
(* dicts user_images and user_timestamps are functions whose DOMAIN is     *)
(* the set of keys present.                                                *)
(***************************************************************************)
EXTENDS Integers, FiniteSets, Sequences, TLC

\* ---- bounds of the model ------------------------------------------------
NumOwners == 2          \* distinct user ids
MaxJobs == 2            \* handle_photo requests over a run
MaxCalls == 2           \* callback queries over a run
MaxTime == 602          \* the clock stops here
MaxTimeReaper == 1202   \* the clock of SpecReaper stops here
MaxLate == 1            \* seconds a due periodic_cleanup waits for the loop

\* ---- program constants --------------------------------------------------
TTL == 600              \* cleanup_old_images: current_time - timestamp > 600
ReaperPeriod == 300     \* periodic_cleanup: asyncio.sleep(300)
MaxFileSize == 20971520 \* handle_document: file_size > 20 * 1024 * 1024

Owners == 1..NumOwners
Jobs == 1..MaxJobs
Calls == 1..MaxCalls
\* file sizes at and just over the limit
FileSizes == {MaxFileSize, MaxFileSize + 1}
\* the clock advances in jumps; 299/300/301 produce the ages 599, 600, 601
TickSteps == {299, 300, 301}

VARIABLES
    now,              \* time.time()
    bg_session,       \* global bg_session: 0 is None
    session_lock,     \* threading.Lock: 0 free, else the job holding it
    newSessionCalls,  \* number of new_session('u2net') invocations so far
    user_images,      \* dict owner -> payload
    user_timestamps,  \* dict owner -> time of insertion
    logCleaned,       \* N of the last "Cleaned up N old images" log line
    reaperWake,       \* periodic_cleanup sleeps until this time
    reaperAlive,      \* the periodic_cleanup task has not ended
    hpc,              \* handle_photo request -> position
    howner,           \* handle_photo request -> message.from_user.id
    hmsg,             \* request -> the message: photo or document, whether
                      \* a document's mime_type starts with image/, file_size
    herr,             \* handle_photo request -> what raised ("none" if nothing)
    wpc,              \* executor job of the request -> position of its thread
    wsession,         \* executor job -> session returned by get_bg_session()
    cpc,              \* callback -> position
    ckind,            \* callback -> "doc" (send_as_document) / "photo"
    cowner,           \* callback -> user id parsed from callback.data
    cdata,            \* callback -> local output_data (0 unassigned)
    coutcome,         \* callback -> how the handler ended: "none" (not yet),
                      \* "NotFound" (the "Image expired" answer), "Delivered",
                      \* "KeyError" / "SendError" (the exception its except
                      \* block caught: both answer "Error sending ...")
    cafter,           \* history: the callback arrived while its owner's
                      \* entry was consumed and not replaced
    crival,           \* history: a download in flight for the same owner
                      \* when this download passed its check (0 if none)
    craced,           \* history: a sweep removed the owner's entry while
                      \* this download was in flight
    consumed          \* history: owner -> a download delivered and removed
                      \* the entry and nothing was stored since

sessionVars == <<bg_session, session_lock, newSessionCalls, wpc, wsession>>
storeVars == <<user_images, user_timestamps>>
photoVars == <<hpc, howner, hmsg, herr>>
callVars == <<cpc, ckind, cowner, cdata, coutcome, cafter, crival, craced>>
vars == <<now, bg_session, session_lock, newSessionCalls, user_images,
          user_timestamps, logCleaned, reaperWake, reaperAlive, hpc, howner, hmsg, herr, wpc,
          wsession, cpc, ckind, cowner, cdata, coutcome, cafter, crival,
          craced, consumed>>

\* ---- messages ------------------------------------------------------------
\* no message yet
NoMessage == [kind |-> "none", image |-> FALSE, size |-> 0]

\* a message matching F.photo: message.photo is a list of sizes
PhotoMessage(size) == [kind |-> "photo", image |-> TRUE, size |-> size]

\* a message matching F.document: message.photo is None
DocumentMessage(image, size) ==
    [kind |-> "document", image |-> image, size |-> size]

\* ---- dict operations ----------------------------------------------------
\* d[k] = v
DictSet(d, k, v) == [x \in (DOMAIN d) \cup {k} |-> IF x = k THEN v ELSE d[x]]

\* if k in d: del d[k]
DictDel(d, k) == [x \in (DOMAIN d) \ {k} |-> d[x]]

\* for k in ks: if k in d: del d[k]
DictDelAll(d, ks) == [x \in (DOMAIN d) \ ks |-> d[x]]

\* ---- cleanup_old_images -------------------------------------------------
\* faulty variant: the age test with >= for >
ToRemoveInclusive(ts, t) == {k \in DOMAIN ts : t - ts[k] >= TTL}

\* faulty variant: entries live one Reaper period longer
ToRemoveLate(ts, t) == {k \in DOMAIN ts : t - ts[k] > TTL + ReaperPeriod}

\* the list to_remove built from user_timestamps at current_time = t
ToRemove(ts, t) == {k \in DOMAIN ts : t - ts[k] > TTL}

\* callback c is past its membership check and has not returned
InFlight(c) == cpc[c] \in {"ack", "send"}

\* cleanup_old_images(): a synchronous call, part of the action calling it
Cleanup ==
    LET rem == ToRemove(user_timestamps, now) IN
    /\ user_images' = DictDelAll(user_images, rem)
    /\ user_timestamps' = DictDelAll(user_timestamps, rem)
    /\ logCleaned' = IF rem # {} THEN Cardinality(rem) ELSE logCleaned
    /\ craced' = [c \in Calls |->
                    craced[c] \/ (InFlight(c) /\ ckind[c] = "doc"
                                  /\ cowner[c] \in rem
                                  /\ cowner[c] \in DOMAIN user_images)]

Init ==
    /\ now = 0
    /\ bg_session = 0
    /\ session_lock = 0
    /\ newSessionCalls = 0
    /\ user_images = <<>>
    /\ user_timestamps = <<>>
    /\ logCleaned = 0
    /\ reaperWake = ReaperPeriod
    /\ reaperAlive = TRUE
    /\ hpc = [i \in Jobs |-> "idle"]
    /\ howner = [i \in Jobs |-> 0]
    /\ hmsg = [i \in Jobs |-> NoMessage]
    /\ herr = [i \in Jobs |-> "none"]
    /\ wpc = [i \in Jobs |-> "none"]
    /\ wsession = [i \in Jobs |-> 0]
    /\ cpc = [c \in Calls |-> "idle"]
    /\ ckind = [c \in Calls |-> "none"]
    /\ cowner = [c \in Calls |-> 0]
    /\ cdata = [c \in Calls |-> 0]
    /\ coutcome = [c \in Calls |-> "none"]
    /\ cafter = [c \in Calls |-> FALSE]
    /\ crival = [c \in Calls |-> 0]
    /\ craced = [c \in Calls |-> FALSE]
    /\ consumed = [k \in Owners |-> FALSE]

\* ---- the clock and the Reaper ------------------------------------------
\* d seconds pass
Tick(d) ==
    /\ now + d <= MaxTime
    /\ now' = now + d
    /\ UNCHANGED <<sessionVars, storeVars, logCleaned, reaperWake, reaperAlive, photoVars,
                   callVars, consumed>>

\* periodic_cleanup: one turn of the loop after asyncio.sleep(300) returned
ReaperTick ==
    /\ reaperAlive
    /\ now >= reaperWake
    /\ Cleanup
    /\ reaperWake' = now + ReaperPeriod
    /\ UNCHANGED <<now, reaperAlive, sessionVars, photoVars, cpc, ckind, cowner, cdata,
                   coutcome, cafter, crival, consumed>>

\* d seconds pass and the event loop is never kept from a due
\* periodic_cleanup for more than MaxLate seconds
TimelyTick(d) ==
    /\ now + d <= MaxTimeReaper
    /\ reaperAlive => now + d <= reaperWake + MaxLate
    /\ now' = now + d
    /\ UNCHANGED <<sessionVars, storeVars, logCleaned, reaperWake, reaperAlive,
                   photoVars, callVars, consumed>>

\* periodic_cleanup: an exception leaves cleanup_old_images() (done = FALSE,
\* before the deletions) or gc.collect() / logger.info (done = TRUE, after
\* them); the while loop has no try, so it leaves the coroutine and the task
\* created in main() ends
ReaperFail(done) ==
    /\ reaperAlive
    /\ now >= reaperWake
    /\ IF done THEN Cleanup
               ELSE UNCHANGED <<storeVars, logCleaned, craced>>
    /\ reaperAlive' = FALSE
    /\ UNCHANGED <<now, reaperWake, sessionVars, photoVars, cpc, ckind, cowner,
                   cdata, coutcome, cafter, crival, consumed>>

\* ---- get_bg_session and process_image_optimized (worker threads) --------
\* faulty variant: get_bg_session without the lock
LockAvailableAlways(lock) == TRUE

\* `with session_lock:` can be entered
LockAvailable(lock) == lock = 0

\* the thread enters `with session_lock` and tests `bg_session is None`;
\* when a session exists it leaves the block and returns it
W_Enter(i) ==
    /\ wpc[i] = "queued"
    /\ LockAvailable(session_lock)
    /\ IF bg_session = 0
         THEN /\ session_lock' = i
              /\ wpc' = [wpc EXCEPT ![i] = "loading"]
              /\ UNCHANGED wsession
         ELSE /\ session_lock' = 0
              /\ wpc' = [wpc EXCEPT ![i] = "session"]
              /\ wsession' = [wsession EXCEPT ![i] = bg_session]
    /\ UNCHANGED <<now, bg_session, newSessionCalls, storeVars, logCleaned,
                   reaperWake, reaperAlive, photoVars, callVars, consumed>>

\* new_session('u2net') returns: bg_session is set, the lock is released and
\* get_bg_session returns the global
W_NewSessionOk(i) ==
    /\ wpc[i] = "loading"
    /\ newSessionCalls' = newSessionCalls + 1
    /\ bg_session' = newSessionCalls + 1
    /\ session_lock' = 0
    /\ wsession' = [wsession EXCEPT ![i] = bg_session']
    /\ wpc' = [wpc EXCEPT ![i] = "session"]
    /\ UNCHANGED <<now, storeVars, logCleaned, reaperWake, reaperAlive, photoVars,
                   callVars, consumed>>

\* faulty variant: the lock is not released when new_session raises
W_NewSessionFailKeepsLock(i) ==
    /\ wpc[i] = "loading"
    /\ newSessionCalls' = newSessionCalls + 1
    /\ wpc' = [wpc EXCEPT ![i] = "load_error"]
    /\ UNCHANGED <<now, bg_session, session_lock, wsession, storeVars,
                   logCleaned, reaperWake, reaperAlive, photoVars, callVars,
                   consumed>>

\* new_session raises: `raise e` leaves the with block, bg_session stays None
\* and the exception leaves process_image_optimized
W_NewSessionFail(i) ==
    /\ wpc[i] = "loading"
    /\ newSessionCalls' = newSessionCalls + 1
    /\ session_lock' = 0
    /\ wpc' = [wpc EXCEPT ![i] = "load_error"]
    /\ UNCHANGED <<now, bg_session, wsession, storeVars, logCleaned,
                   reaperWake, reaperAlive, photoVars, callVars, consumed>>

\* remove(rgb_image, session=session) and ensure_transparency return
W_RemoveOk(i) ==
    /\ wpc[i] = "session"
    /\ wpc' = [wpc EXCEPT ![i] = "returned"]
    /\ UNCHANGED <<now, bg_session, session_lock, newSessionCalls, wsession,
                   storeVars, logCleaned, reaperWake, reaperAlive, photoVars, callVars,
                   consumed>>

\* remove(...) raises: process_image_optimized re-raises
W_RemoveFail(i) ==
    /\ wpc[i] = "session"
    /\ wpc' = [wpc EXCEPT ![i] = "segment_error"]
    /\ UNCHANGED <<now, bg_session, session_lock, newSessionCalls, wsession,
                   storeVars, logCleaned, reaperWake, reaperAlive, photoVars, callVars,
                   consumed>>

\* ---- handle_photo -------------------------------------------------------
\* faulty variant: the except block forgets user_images
ErrorCleanupImagesKept(imgs, k) == imgs

\* except block: if user_id in user_images: del user_images[user_id]
ErrorCleanupImages(imgs, k) == DictDel(imgs, k)

\* faulty variant: the except block forgets user_timestamps
ErrorCleanupTimestampsKept(ts, k) == ts

\* except block: if user_id in user_timestamps: del user_timestamps[user_id]
ErrorCleanupTimestamps(ts, k) == DictDel(ts, k)

\* faulty variant: the timestamp of an existing entry is kept (setdefault)
StoreTimestampKeepOld(ts, k, t) == IF k \in DOMAIN ts THEN ts ELSE DictSet(ts, k, t)

\* user_images[user_id] = output_data
StoreImage(imgs, k, v) == DictSet(imgs, k, v)

\* user_timestamps[user_id] = time.time()
StoreTimestamp(ts, k, t) == DictSet(ts, k, t)

\* the except block up to its first await: both dicts lose the owner's key
HP_Except(i, why) ==
    /\ user_images' = ErrorCleanupImages(user_images, howner[i])
    /\ user_timestamps' = ErrorCleanupTimestamps(user_timestamps, howner[i])
    /\ hpc' = [hpc EXCEPT ![i] = "except"]
    /\ herr' = [herr EXCEPT ![i] = why]

\* the dispatcher has the i-th message to hand to a handler
Arrives(i) ==
    /\ hpc[i] = "idle"
    /\ IF i = 1 THEN TRUE ELSE hpc[i - 1] # "idle"

\* handle_photo(message) up to its first await: cleanup_old_images(), then
\* the handler waits for message.answer
HandlePhoto(i, k, msg) ==
    /\ Cleanup
    /\ hpc' = [hpc EXCEPT ![i] = "fetch"]
    /\ howner' = [howner EXCEPT ![i] = k]
    /\ hmsg' = [hmsg EXCEPT ![i] = msg]
    /\ UNCHANGED <<now, sessionVars, reaperWake, reaperAlive, herr, cpc, ckind,
                   cowner, cdata, coutcome, cafter, crival, consumed>>

\* a photo message of owner k arrives, its largest size within the limit
HP_Start(i, k) ==
    /\ Arrives(i)
    /\ HandlePhoto(i, k, PhotoMessage(MaxFileSize))

\* a photo message of owner k arrives whose largest size has the given
\* file_size: handle_photo never reads it
HP_StartSized(i, k, size) ==
    /\ Arrives(i)
    /\ HandlePhoto(i, k, PhotoMessage(size))

\* handle_document: a document message of owner k arrives.  A mime_type that
\* is not image/..., or a file_size over the limit, is answered and the
\* handler returns; otherwise handle_photo(message) is awaited
HD_Start(i, k, image, size) ==
    /\ Arrives(i)
    /\ IF ~image \/ size > MaxFileSize
         THEN /\ hpc' = [hpc EXCEPT ![i] = "rejected"]
              /\ howner' = [howner EXCEPT ![i] = k]
              /\ hmsg' = [hmsg EXCEPT ![i] = DocumentMessage(image, size)]
              /\ UNCHANGED <<now, sessionVars, storeVars, logCleaned,
                             reaperWake, reaperAlive, herr, callVars, consumed>>
         ELSE HandlePhoto(i, k, DocumentMessage(image, size))

\* faulty variant: process_image_optimized(input_image) is called on the
\* event loop, so the step ends only when the job has returned
HP_SubmitBlocking(i) ==
    /\ hpc[i] = "fetch"
    /\ hmsg[i].kind = "photo"
    /\ session_lock = 0
    /\ hpc' = [hpc EXCEPT ![i] = "exec"]
    /\ newSessionCalls' =
          IF bg_session = 0 THEN newSessionCalls + 1 ELSE newSessionCalls
    /\ bg_session' = IF bg_session = 0 THEN newSessionCalls + 1 ELSE bg_session
    /\ wsession' = [wsession EXCEPT ![i] = bg_session']
    /\ wpc' = [wpc EXCEPT ![i] = "returned"]
    /\ UNCHANGED <<now, session_lock, storeVars, logCleaned, reaperWake,
                   reaperAlive, howner, hmsg, herr, callVars, consumed>>

\* message.answer, get_file, download_file and Image.open succeed (no shared
\* state is touched between these awaits): the job goes to the executor
HP_Submit(i) ==
    /\ hpc[i] = "fetch"
    /\ hmsg[i].kind = "photo"
    /\ hpc' = [hpc EXCEPT ![i] = "exec"]
    /\ wpc' = [wpc EXCEPT ![i] = "queued"]
    /\ UNCHANGED <<now, bg_session, session_lock, newSessionCalls, wsession,
                   storeVars, logCleaned, reaperWake, reaperAlive, howner, hmsg, herr, callVars,
                   consumed>>

\* photo = message.photo[-1] on a document message: message.photo is None
\* and the subscript raises TypeError
HP_PhotoMissing(i) ==
    /\ hpc[i] = "fetch"
    /\ hmsg[i].kind = "document"
    /\ HP_Except(i, "nophoto")
    /\ UNCHANGED <<now, sessionVars, logCleaned, reaperWake, reaperAlive,
                   howner, hmsg, callVars, consumed>>

\* bot.get_file / bot.download_file raises, or Image.open cannot decode
HP_FetchFail(i, why) ==
    /\ hpc[i] = "fetch"
    /\ hmsg[i].kind = "photo"
    /\ why \in {"download", "decode"}
    /\ HP_Except(i, why)
    /\ UNCHANGED <<now, sessionVars, logCleaned, reaperWake, reaperAlive, howner, hmsg,
                   callVars, consumed>>

\* faulty variant: the result is stored while the job is still in the executor
HP_StoreEarly(i) ==
    /\ hpc[i] = "exec"
    /\ wpc[i] \in {"queued", "session", "returned"}
    /\ user_images' = StoreImage(user_images, howner[i], i)
    /\ user_timestamps' = StoreTimestamp(user_timestamps, howner[i], now)
    /\ consumed' = [consumed EXCEPT ![howner[i]] = FALSE]
    /\ hpc' = [hpc EXCEPT ![i] = "stored"]
    /\ UNCHANGED <<now, sessionVars, logCleaned, reaperWake, reaperAlive, howner, hmsg, herr,
                   callVars>>

\* run_in_executor's future resolved with the output: lines 201-209 store it,
\* then the handler waits for processing_msg.delete and message.answer
HP_Store(i) ==
    /\ hpc[i] = "exec"
    /\ wpc[i] = "returned"
    /\ user_images' = StoreImage(user_images, howner[i], i)
    /\ user_timestamps' = StoreTimestamp(user_timestamps, howner[i], now)
    /\ consumed' = [consumed EXCEPT ![howner[i]] = FALSE]
    /\ hpc' = [hpc EXCEPT ![i] = "stored"]
    /\ UNCHANGED <<now, sessionVars, logCleaned, reaperWake, reaperAlive, howner, hmsg, herr,
                   callVars>>

\* run_in_executor's future resolved with the exception of the job, which
\* the handler takes from it
HP_JobFail(i) ==
    /\ hpc[i] = "exec"
    /\ wpc[i] \in {"load_error", "segment_error"}
    /\ HP_Except(i, IF wpc[i] = "load_error" THEN "load" ELSE "segment")
    /\ wpc' = [wpc EXCEPT ![i] = "none"]
    /\ UNCHANGED <<now, bg_session, session_lock, newSessionCalls, wsession,
                   logCleaned, reaperWake, reaperAlive, howner, hmsg, callVars, consumed>>

\* processing_msg.delete() and the keyboard message went out
HP_Notify(i) ==
    /\ hpc[i] = "stored"
    /\ hpc' = [hpc EXCEPT ![i] = "ok"]
    /\ UNCHANGED <<now, sessionVars, storeVars, logCleaned, reaperWake, reaperAlive,
                   howner, hmsg, herr, callVars, consumed>>

\* processing_msg.delete() or message.answer raises after the store: the
\* except block runs
HP_NotifyFail(i) ==
    /\ hpc[i] = "stored"
    /\ HP_Except(i, "notify")
    /\ UNCHANGED <<now, sessionVars, logCleaned, reaperWake, reaperAlive, howner, hmsg,
                   callVars, consumed>>

\* rest of the except block: processing_msg.delete(), "Processing failed";
\* the handler returns and its locals (user_id, e) are gone
HP_Report(i) ==
    /\ hpc[i] = "except"
    /\ hpc' = [hpc EXCEPT ![i] = "error"]
    /\ herr' = [herr EXCEPT ![i] = "none"]
    /\ howner' = [howner EXCEPT ![i] = 0]
    /\ UNCHANGED <<now, sessionVars, storeVars, logCleaned, reaperWake, reaperAlive,
                   hmsg, callVars, consumed>>

\* ---- send_as_document and send_as_photo ----------------------------------
\* create_result_keyboard(k) was sent: a button for owner k can be pressed
KeyboardShown(k) == \E i \in Jobs : howner[i] = k /\ hpc[i] = "ok"

\* a download for owner k that passed its check and has not finished
Rival(c, k) ==
    LET others == {d \in Calls : d # c /\ ckind[d] = "doc" /\ cowner[d] = k
                                 /\ InFlight(d)}
    IN IF others = {} THEN 0 ELSE CHOOSE d \in others : TRUE

\* faulty variant: the download leaves user_images alone
TakeImageKept(imgs, k) == imgs

\* lines 288-289: if user_id in user_images: del user_images[user_id]
TakeImage(imgs, k) == DictDel(imgs, k)

\* lines 290-291: if user_id in user_timestamps: del user_timestamps[user_id]
TakeTimestamp(ts, k) == DictDel(ts, k)

\* the handler returns with outcome o: its locals are gone
CB_Return(c, o) ==
    /\ cpc' = [cpc EXCEPT ![c] = "done"]
    /\ coutcome' = [coutcome EXCEPT ![c] = o]
    /\ ckind' = [ckind EXCEPT ![c] = "none"]
    /\ cowner' = [cowner EXCEPT ![c] = 0]
    /\ cdata' = [cdata EXCEPT ![c] = 0]

\* the callback arrives; `user_id not in user_images` decides between the
\* "Image expired" answer and the first await, callback.answer("Preparing")
CB_Start(c, kind, k) ==
    /\ cpc[c] = "idle"
    /\ IF c = 1 THEN TRUE ELSE cpc[c - 1] # "idle"
    /\ KeyboardShown(k)
    /\ cafter' = [cafter EXCEPT ![c] = consumed[k]]
    /\ IF k \notin DOMAIN user_images
         THEN /\ CB_Return(c, "NotFound")
              /\ UNCHANGED crival
         ELSE /\ cpc' = [cpc EXCEPT ![c] = "ack"]
              /\ ckind' = [ckind EXCEPT ![c] = kind]
              /\ cowner' = [cowner EXCEPT ![c] = k]
              /\ crival' = [crival EXCEPT ![c] =
                              IF kind = "doc" THEN Rival(c, k) ELSE 0]
              /\ UNCHANGED <<coutcome, cdata>>
    /\ UNCHANGED <<now, sessionVars, storeVars, logCleaned, reaperWake, reaperAlive,
                   photoVars, craced, consumed>>

\* after the first await: output_data = user_images[user_id] (a KeyError
\* when the key is gone goes to the except block), then the PNG is encoded
\* and answer_document / answer_photo is awaited
CB_Read(c) ==
    /\ cpc[c] = "ack"
    /\ IF cowner[c] \in DOMAIN user_images
         THEN /\ cdata' = [cdata EXCEPT ![c] = user_images[cowner[c]]]
              /\ cpc' = [cpc EXCEPT ![c] = "send"]
              /\ UNCHANGED <<coutcome, ckind, cowner>>
         ELSE CB_Return(c, "KeyError")
    /\ UNCHANGED <<now, sessionVars, storeVars, logCleaned, reaperWake, reaperAlive,
                   photoVars, cafter, crival, craced, consumed>>

\* output_data.save(...) raises: except block, "Error sending"
CB_EncodeFail(c) ==
    /\ cpc[c] = "ack"
    /\ cowner[c] \in DOMAIN user_images
    /\ CB_Return(c, "SendError")
    /\ UNCHANGED <<now, sessionVars, storeVars, logCleaned, reaperWake, reaperAlive,
                   photoVars, cafter, crival, craced, consumed>>

\* answer_document returned: the document is delivered, both keys are
\* deleted, then callback.message.delete() is awaited
CB_SendDocument(c) ==
    /\ cpc[c] = "send"
    /\ ckind[c] = "doc"
    /\ user_images' = TakeImage(user_images, cowner[c])
    /\ user_timestamps' = TakeTimestamp(user_timestamps, cowner[c])
    /\ consumed' = [consumed EXCEPT ![cowner[c]] = TRUE]
    /\ CB_Return(c, "Delivered")
    /\ UNCHANGED <<now, sessionVars, logCleaned, reaperWake, reaperAlive, photoVars,
                   cafter, crival, craced>>

\* faulty variant: the preview deletes the entry as the download does
CB_SendPhotoTakes(c) ==
    /\ cpc[c] = "send"
    /\ ckind[c] = "photo"
    /\ user_images' = TakeImage(user_images, cowner[c])
    /\ user_timestamps' = TakeTimestamp(user_timestamps, cowner[c])
    /\ CB_Return(c, "Delivered")
    /\ UNCHANGED <<now, sessionVars, logCleaned, reaperWake, reaperAlive,
                   photoVars, cafter, crival, craced, consumed>>

\* answer_photo returned: the preview is delivered and the keyboard is sent
\* again; the store is not touched
CB_SendPhoto(c) ==
    /\ cpc[c] = "send"
    /\ ckind[c] = "photo"
    /\ CB_Return(c, "Delivered")
    /\ UNCHANGED <<now, sessionVars, storeVars, logCleaned, reaperWake, reaperAlive,
                   photoVars, cafter, crival, craced, consumed>>

\* faulty variant: send_as_document deletes the entry before it awaits
\* answer_document, so a failed delivery has already removed it
CB_SendFailAfterTake(c) ==
    /\ cpc[c] = "send"
    /\ IF ckind[c] = "doc"
         THEN /\ user_images' = TakeImage(user_images, cowner[c])
              /\ user_timestamps' = TakeTimestamp(user_timestamps, cowner[c])
         ELSE UNCHANGED storeVars
    /\ CB_Return(c, "SendError")
    /\ UNCHANGED <<now, sessionVars, logCleaned, reaperWake, reaperAlive,
                   photoVars, cafter, crival, craced, consumed>>

\* answer_document / answer_photo raises: except block, nothing is deleted
CB_SendFail(c) ==
    /\ cpc[c] = "send"
    /\ CB_Return(c, "SendError")
    /\ UNCHANGED <<now, sessionVars, storeVars, logCleaned, reaperWake, reaperAlive,
                   photoVars, cafter, crival, craced, consumed>>

\* ---- the system ---------------------------------------------------------
Next ==
    \/ \E d \in TickSteps : Tick(d)
    \/ ReaperTick
    \/ \E i \in Jobs, k \in Owners : HP_Start(i, k)
    \/ \E i \in Jobs : HP_Submit(i)
    \/ \E i \in Jobs, why \in {"download", "decode"} : HP_FetchFail(i, why)
    \/ \E i \in Jobs : W_Enter(i)
    \/ \E i \in Jobs : W_NewSessionOk(i)
    \/ \E i \in Jobs : W_NewSessionFail(i)
    \/ \E i \in Jobs : W_RemoveOk(i)
    \/ \E i \in Jobs : W_RemoveFail(i)
    \/ \E i \in Jobs : HP_Store(i)
    \/ \E i \in Jobs : HP_JobFail(i)
    \/ \E i \in Jobs : HP_Notify(i)
    \/ \E i \in Jobs : HP_NotifyFail(i)
    \/ \E i \in Jobs : HP_Report(i)
    \/ \E c \in Calls, kind \in {"doc", "photo"}, k \in Owners : CB_Start(c, kind, k)
    \/ \E c \in Calls : CB_Read(c)
    \/ \E c \in Calls : CB_EncodeFail(c)
    \/ \E c \in Calls : CB_SendDocument(c)
    \/ \E c \in Calls : CB_SendPhoto(c)
    \/ \E c \in Calls : CB_SendFail(c)

Spec == Init /\ [][Next]_vars

\* the worker threads alone: requests arrive and their jobs run in the
\* executor; no handler takes the results
NextSession ==
    \/ \E i \in Jobs, k \in Owners : HP_Start(i, k)
    \/ \E i \in Jobs : HP_Submit(i)
    \/ \E i \in Jobs : W_Enter(i)
    \/ \E i \in Jobs : W_NewSessionOk(i)
    \/ \E i \in Jobs : W_NewSessionFail(i)
    \/ \E i \in Jobs : W_RemoveOk(i)
    \/ \E i \in Jobs : W_RemoveFail(i)

SpecSession == Init /\ [][NextSession]_vars

\* the Reaper and the requests that fill the store, on a clock that reaches
\* 1200 s and with a sweep that can raise
NextReaper ==
    \/ \E d \in TickSteps : TimelyTick(d)
    \/ ReaperTick
    \/ \E done \in BOOLEAN : ReaperFail(done)
    \/ \E i \in Jobs, k \in Owners : HP_Start(i, k)
    \/ \E i \in Jobs : HP_Submit(i)
    \/ \E i \in Jobs : HP_Store(i)
    \/ \E i \in Jobs : HP_Notify(i)
    \/ \E i \in Jobs : W_Enter(i)
    \/ \E i \in Jobs : W_NewSessionOk(i)
    \/ \E i \in Jobs : W_RemoveOk(i)

SpecReaper == Init /\ [][NextReaper]_vars

\* the two inbound handlers with messages of every kind and size, and the
\* jobs they start
NextInbound ==
    \/ \E i \in Jobs, k \in Owners, size \in FileSizes : HP_StartSized(i, k, size)
    \/ \E i \in Jobs, k \in Owners, image \in BOOLEAN, size \in FileSizes :
          HD_Start(i, k, image, size)
    \/ \E i \in Jobs : HP_Submit(i)
    \/ \E i \in Jobs : HP_PhotoMissing(i)
    \/ \E i \in Jobs, why \in {"download", "decode"} : HP_FetchFail(i, why)
    \/ \E i \in Jobs : HP_Store(i)
    \/ \E i \in Jobs : HP_JobFail(i)
    \/ \E i \in Jobs : HP_Notify(i)
    \/ \E i \in Jobs : HP_NotifyFail(i)
    \/ \E i \in Jobs : HP_Report(i)
    \/ \E i \in Jobs : W_Enter(i)
    \/ \E i \in Jobs : W_NewSessionOk(i)
    \/ \E i \in Jobs : W_NewSessionFail(i)
    \/ \E i \in Jobs : W_RemoveOk(i)
    \/ \E i \in Jobs : W_RemoveFail(i)

SpecInbound == Init /\ [][NextInbound]_vars

\* ---- claims -------------------------------------------------------------
\* new_session calls that raised (under SpecSession no handler takes the
\* exception from the future, so each failed job stays in "load_error")
LoadFailures == Cardinality({i \in Jobs : wpc[i] = "load_error"})

\* C1: single-flight init.  Over any run of the worker threads at most one
\* new_session call succeeds (so exactly one call is made when loads do not
\* fail), no thread is in the load branch once a session exists, and every
\* session returned by get_bg_session() is the one global session.
C1_SingleFlightInit ==
    /\ newSessionCalls - LoadFailures <= 1
    /\ bg_session # 0 => newSessionCalls - LoadFailures = 1
    /\ \A i \in Jobs : wpc[i] = "loading" => bg_session = 0
    /\ \A i \in Jobs : wsession[i] # 0 => wsession[i] = bg_session

\* two threads went through get_bg_session() and one new_session call was made
C1_Witness ==
    /\ newSessionCalls = 1
    /\ \E i, j \in Jobs : i # j /\ wsession[i] # 0 /\ wsession[j] # 0

\* C2: two downloads for one owner that are in flight together (the second
\* passed its membership check while the first was past its own) and were
\* stopped by no delivery failure end as exactly one "Delivered" and one
\* "NotFound".
C2_ConcurrentTake ==
    \A c, d \in Calls :
        (crival[c] = d /\ cpc[c] = "done" /\ cpc[d] = "done"
            /\ coutcome[c] # "SendError" /\ coutcome[d] # "SendError")
        => {coutcome[c], coutcome[d]} = {"Delivered", "NotFound"}

\* C3: the step of a download that delivers the document and deletes the
\* owner's entry deletes the payload it read and delivered.
C3_TakeRemovesDelivered ==
    [][\A c \in Calls :
          (cpc[c] = "send" /\ ckind[c] = "doc" /\ coutcome'[c] = "Delivered"
              /\ cowner[c] \in DOMAIN user_images)
          => user_images[cowner[c]] = cdata[c]]_vars

\* C4: a download or preview that arrives for an owner whose entry a download
\* has delivered and removed, with nothing stored for the owner since, ends at
\* once with "NotFound" and holds no payload.
C4_SingleConsumption ==
    /\ \A k \in Owners : consumed[k] => k \notin DOMAIN user_images
    /\ \A c \in Calls : cafter[c] =>
          cpc[c] = "done" /\ coutcome[c] = "NotFound" /\ cdata[c] = 0

\* a callback arrived after the download of its owner's entry and got NotFound
C4_Witness ==
    \E c, d \in Calls :
        /\ c # d
        /\ coutcome[d] = "Delivered"
        /\ cafter[c]
        /\ coutcome[c] = "NotFound"

\* C5: a download whose owner's entry a sweep removed while the download was
\* in flight ends with "NotFound" (unless the delivery itself failed), and the
\* two dicts always hold the same keys.
C5_TakeSweepLinearizable ==
    /\ \A c \in Calls :
          (craced[c] /\ cpc[c] = "done" /\ coutcome[c] # "SendError")
          => coutcome[c] = "NotFound"
    /\ DOMAIN user_images = DOMAIN user_timestamps

\* a step that ran cleanup_old_images(): the Reaper's turn or the start of a
\* handle_photo
SweepStep ==
    \/ reaperWake' # reaperWake
    \/ \E i \in Jobs : hpc[i] = "idle" /\ hpc'[i] = "fetch"

\* C6: a key leaves user_images only in a step that is a download for that
\* owner delivering the stored payload, or a sweep run when the entry is more
\* than 600 seconds old.
C6_RemovalOnlyByTakeOrSweep ==
    [][\A k \in DOMAIN user_images :
          k \notin DOMAIN user_images' =>
             \/ \E c \in Calls :
                   /\ cpc[c] = "send" /\ ckind[c] = "doc" /\ cowner[c] = k
                   /\ cdata[c] = user_images[k]
                   /\ coutcome'[c] = "Delivered"
             \/ /\ SweepStep
                /\ k \in DOMAIN user_timestamps
                /\ now - user_timestamps[k] > 600]_vars

\* C7: the step in which handle_photo stores the result of request i for
\* owner k leaves exactly one entry for k, whose payload is i and whose
\* timestamp is the time of this step, whatever was stored for k before; the
\* entries of the other owners are untouched.
C7_Overwrite ==
    [][\A i \in Jobs :
          (hpc[i] = "exec" /\ hpc'[i] = "stored") =>
             LET k == howner[i] IN
             /\ k \in DOMAIN user_images'
             /\ k \in DOMAIN user_timestamps'
             /\ user_images'[k] = i
             /\ user_timestamps'[k] = now
             /\ \A x \in Owners \ {k} :
                   /\ x \in DOMAIN user_images' <=> x \in DOMAIN user_images
                   /\ x \in DOMAIN user_images' => user_images'[x] = user_images[x]
                   /\ x \in DOMAIN user_timestamps' <=> x \in DOMAIN user_timestamps
                   /\ x \in DOMAIN user_timestamps' =>
                         user_timestamps'[x] = user_timestamps[x]]_vars

\* result j replaced an earlier result i of the same owner at a later time:
\* no callback ran, nothing was old enough to be swept and neither request
\* took its error path, so i was in the store when j was stored
C7_Witness ==
    \E i, j \in Jobs :
        /\ i # j
        /\ howner[i] = howner[j]
        /\ hpc[i] = "ok"
        /\ hpc[j] = "stored"
        /\ \A c \in Calls : cpc[c] = "idle"
        /\ now <= 600
        /\ howner[j] \in DOMAIN user_images
        /\ user_images[howner[j]] = j
        /\ user_timestamps[howner[j]] = now
        /\ now > 0

\* C8: a run of cleanup_old_images at time now removes from both dicts exactly
\* the owners whose timestamp is more than 600 seconds old, leaves every other
\* entry as it was, and logs the number of entries it removed.
C8_SweepBoundary ==
    [][SweepStep =>
          LET old == {k \in DOMAIN user_timestamps : now - user_timestamps[k] > 600}
              kept == {k \in DOMAIN user_timestamps : now - user_timestamps[k] <= 600}
          IN
          /\ DOMAIN user_timestamps' = kept
          /\ DOMAIN user_images' = (DOMAIN user_images) \ old
          /\ \A k \in DOMAIN user_images' : user_images'[k] = user_images[k]
          /\ \A k \in DOMAIN user_timestamps' : user_timestamps'[k] = user_timestamps[k]
          /\ old # {} =>
                logCleaned' = Cardinality((DOMAIN user_images) \ DOMAIN user_images')]_vars

\* the Reaper swept at this very time and kept an entry exactly 600 seconds
\* old
C8_Witness ==
    /\ reaperWake = now + 300
    /\ \E k \in DOMAIN user_timestamps : now - user_timestamps[k] = 600

\* C9: when a handle_photo request for owner k takes its error path because
\* the download, the decoding, the model load or the segmentation failed, the
\* except block leaves no key k in user_images or user_timestamps; and no
\* payload in the store comes from a request that took its error path.
C9_FailureLeavesNoEntry ==
    /\ [][\A i \in Jobs :
            (hpc[i] # "except" /\ hpc'[i] = "except"
                /\ herr'[i] \in {"download", "decode", "load", "segment"})
            => /\ howner[i] \notin DOMAIN user_images'
               /\ howner[i] \notin DOMAIN user_timestamps']_vars
    /\ [](\A k \in DOMAIN user_images : hpc[user_images[k]] \in {"stored", "ok"})

\* a request failed in the segmentation after an earlier request of the same
\* owner had succeeded, and its except block has run
C9_Witness ==
    \E i, j \in Jobs :
        /\ i # j
        /\ howner[i] = howner[j]
        /\ hpc[i] = "ok"
        /\ hpc[j] = "except"
        /\ herr[j] = "segment"
        /\ howner[j] \notin DOMAIN user_images
        /\ howner[j] \notin DOMAIN user_timestamps

\* C10: every payload in user_images is the output a finished
\* process_image_optimized call returned.
C10_VisibleOnlyWhenComplete ==
    \A k \in DOMAIN user_images : wpc[user_images[k]] = "returned"

\* an entry is visible for an owner whose next job is still in the executor
C10_Witness ==
    \E i, j \in Jobs :
        /\ i # j
        /\ howner[i] = howner[j]
        /\ howner[i] \in DOMAIN user_images
        /\ user_images[howner[i]] = i
        /\ hpc[j] = "exec"
        /\ wpc[j] \in {"queued", "loading", "session"}

\* C11: an error raised during a sweep does not end the Reaper loop: the
\* periodic_cleanup task is alive in every state.
C11_ReaperSurvivesSweepError == reaperAlive

\* C12: a failed model load leaves no trace.  A job whose new_session call
\* raised got no session and does not hold the lock; the lock is held only by
\* a thread inside the load branch; and while every new_session call so far
\* has raised, bg_session is still None, so the next caller loads again.
C12_LoadFailureIsRetryable ==
    /\ \A i \in Jobs :
          wpc[i] = "load_error" => session_lock # i /\ wsession[i] = 0
    /\ session_lock # 0 => wpc[session_lock] = "loading" /\ bg_session = 0
    /\ newSessionCalls = LoadFailures => bg_session = 0

\* the first new_session call raised and the second, made by a later caller
\* of get_bg_session(), returned the session
C12_Witness ==
    /\ LoadFailures = 1
    /\ newSessionCalls = 2
    /\ bg_session = 2
    /\ \E i \in Jobs : wsession[i] = 2

\* C13: the preview is read-only.  No step of a send_as_photo handler, ending
\* in success or in failure, changes user_images or user_timestamps.
C13_PreviewReadOnly ==
    [][\A c \in Calls :
         (cpc'[c] # cpc[c] /\ (ckind[c] = "photo" \/ ckind'[c] = "photo"))
         => UNCHANGED storeVars]_vars

\* one preview of the only stored entry was delivered and a second preview
\* has read the same entry
C13_Witness ==
    \E c, d \in Calls :
        /\ c # d
        /\ coutcome[d] = "Delivered"
        /\ cpc[c] = "send"
        /\ ckind[c] = "photo"
        /\ cowner[c] \in DOMAIN user_images
        /\ cdata[c] = user_images[cowner[c]]
        /\ ~consumed[cowner[c]]
        /\ \A i \in Jobs : i # cdata[c] => hpc[i] = "idle"

\* C14: an image over the size limit is rejected before the core is
\* invoked, on the handle_document path and on the handle_photo path: no
\* request whose file is over 20 MB has a job in the executor or a stored
\* result.
C14_OversizeRejected ==
    \A i \in Jobs :
        hmsg[i].size > MaxFileSize
        => wpc[i] = "none" /\ hpc[i] \notin {"exec", "stored", "ok"}

\* a job is waiting for a pool thread or running on one
JobPending == \E i \in Jobs : hpc[i] = "exec" /\ wpc[i] \in {"queued", "loading", "session"}

\* C15: non-blocking dispatch.  Submitting a job ends the handler's step with
\* the job pending in the executor, and while a job is pending (queued for a
\* pool thread or running) every other handler can take its next step: a
\* callback can start, read and deliver, another handle_photo can start and
\* submit, and a due Reaper tick can run.
C15_NonBlockingDispatch ==
    /\ [][\A i \in Jobs :
            (hpc[i] = "fetch" /\ hpc'[i] = "exec") => wpc'[i] = "queued"]_vars
    /\ [](JobPending =>
            /\ \A c \in Calls, k \in Owners :
                  (cpc[c] = "idle" /\ KeyboardShown(k)
                     /\ (IF c = 1 THEN TRUE ELSE cpc[c - 1] # "idle"))
                  => ENABLED CB_Start(c, "photo", k) /\ ENABLED CB_Start(c, "doc", k)
            /\ \A c \in Calls : cpc[c] = "ack" => ENABLED CB_Read(c)
            /\ \A c \in Calls :
                  cpc[c] = "send"
                  => ENABLED CB_SendDocument(c) \/ ENABLED CB_SendPhoto(c)
            /\ \A j \in Jobs, k \in Owners : Arrives(j) => ENABLED HP_Start(j, k)
            /\ \A j \in Jobs : hpc[j] = "fetch" => ENABLED HP_Submit(j)
            /\ (reaperAlive /\ now >= reaperWake) => ENABLED ReaperTick)

\* while the second request's job is with a pool thread, one callback for the
\* first request's result has been delivered and another is about to deliver
C15_Witness ==
    \E i, j \in Jobs, c, d \in Calls :
        /\ hpc[i] = "ok"
        /\ hpc[j] = "exec"
        /\ wpc[j] = "session"
        /\ c # d
        /\ coutcome[d] = "Delivered"
        /\ cpc[c] = "send"
        /\ cowner[c] = howner[i]

\* seconds by which the pending periodic_cleanup tick is overdue
Lateness == IF now > reaperWake THEN now - reaperWake ELSE 0

\* C16 as stated: while the Reaper runs, no entry stays in the store for more
\* than 900 s (TTL plus one Reaper period) after its insertion.
C16_EvictedWithin900 ==
    reaperAlive =>
        \A k \in DOMAIN user_timestamps :
            now - user_timestamps[k] <= TTL + ReaperPeriod

\* C16 amended: while the Reaper runs, no entry that was older than TTL at
\* the Reaper's last sweep (at reaperWake - ReaperPeriod) is in the store,
\* so no entry in the store is older than 900 s plus the time by which the
\* pending tick is overdue.
C16_EvictedAfterNextSweep ==
    reaperAlive =>
        \A k \in DOMAIN user_timestamps :
            /\ (reaperWake - ReaperPeriod) - user_timestamps[k] <= TTL
            /\ now - user_timestamps[k] <= TTL + ReaperPeriod + Lateness

\* the Reaper has swept three times, each time when due or a second late,
\* and an entry it has met at the age of exactly 600 s is now older than 900 s
C16_Witness ==
    /\ reaperAlive
    /\ reaperWake >= 4 * ReaperPeriod
    /\ \E k \in DOMAIN user_timestamps :
          now - user_timestamps[k] > TTL + ReaperPeriod

\* C17: a document whose mime_type starts with image/ and whose size is
\* within the limit is processed like a photo: its request reaches the
\* "Processing failed" path only when the download, the decoding, the
\* segmentation or the notification failed.
C17_DocumentProcessedLikePhoto ==
    \A i \in Jobs :
        (/\ hmsg[i].kind = "document"
         /\ hmsg[i].image
         /\ hmsg[i].size <= MaxFileSize
         /\ hpc[i] = "except")
        => herr[i] \in {"download", "decode", "load", "segment", "notify"}

\* C18: a failed delivery keeps the entry.  The step in which a
\* send_as_document handler that passed its check ends in its except block
\* because the encoding or answer_document raised leaves user_images and
\* user_timestamps unchanged.
C18_FailedDeliveryKeepsEntry ==
    [][\A c \in Calls :
         (ckind[c] = "doc" /\ InFlight(c) /\ coutcome'[c] = "SendError")
         => UNCHANGED storeVars]_vars

\* the first download failed in its delivery; the entry is still in the
\* store and a second download of the same owner, which passed its check
\* while the first was in flight, holds its payload and is about to send it
C18_Witness ==
    /\ coutcome[1] = "SendError"
    /\ crival[2] = 1
    /\ cpc[2] = "send"
    /\ ckind[2] = "doc"
    /\ cowner[2] \in DOMAIN user_images
    /\ cowner[2] \in DOMAIN user_timestamps
    /\ cdata[2] = user_images[cowner[2]]

\* C19: at every point between two handler steps an owner has a payload in
\* user_images exactly when the owner has a timestamp in user_timestamps.
C19_SameKeys ==
    \A k \in Owners : k \in DOMAIN user_images <=> k \in DOMAIN user_timestamps

\* an entry is in the store after a request has gone through its except
\* block and a callback has delivered
C19_Witness ==
    /\ DOMAIN user_images # {}
    /\ \E i \in Jobs : hpc[i] = "error"
    /\ \E c \in Calls : coutcome[c] = "Delivered"

====
